---- MODULE Spec2Model ----
(***************************************************************************)
(* Model of acmensa-rs: the menu extraction pipeline of libacmensa         *)
(* (scrape.rs, meal.rs, config.rs) and the day selection of acmensa-cli    *)
(* (main.rs, args.rs).                                                     *)
(*                                                                         *)
(* A Rust String is modelled as a sequence of one-character strings, so    *)
(* that regex matching, substring search, splitting, lower-casing and the  *)
(* derived lexicographic order are computed character by character.        *)
(***************************************************************************)
EXTENDS Integers, Sequences, FiniteSets, TLC

VARIABLES pc, arg, out, call, week, sortedw, view, cli, statics

vars == <<pc, arg, out, call, week, sortedw, view, cli, statics>>

(***************************************************************************)
(* Bounds of the model.                                                    *)
(***************************************************************************)
\* longest text handed to the text normalizer / allergen extractor
MaxLen == 5
\* most dish rows (main and side together) of a page
MaxRows == 2
\* largest day index asked of get_day
MaxDay == 6
\* most pieces a label or a cell markup is put together from
MaxParts == 2
\* latest --date asked for, in days since the Monday of the current week
MaxDate == 13
\* most parts (literals and placeholders) of a generated suffix template
MaxTplParts == 3

(***************************************************************************)
(* Strings.                                                                *)
(***************************************************************************)
\* a string literal as a sequence of characters
S(s) == [i \in 1..Len(s) |-> SubSeq(s, i, i)]

\* the characters of the model in code point order (Rust compares strings
\* byte-wise over UTF-8, which is code point order)
CharOrder == S("\n !\"(),-./0123456789<=>ABCDEFGHIJKLMNOPQRSTUVWXYZabcdefghijklmnopqrstuvwxyzÄÖÜäöü€")

Code(c) == CHOOSE i \in 1..Len(CharOrder) : CharOrder[i] = c

UpperChars == S("ABCDEFGHIJKLMNOPQRSTUVWXYZÄÖÜ")
LowerChars == S("abcdefghijklmnopqrstuvwxyzäöü")

\* char::to_lowercase
LowerChar(c) ==
    IF \E i \in 1..Len(UpperChars) : UpperChars[i] = c
    THEN LowerChars[CHOOSE i \in 1..Len(UpperChars) : UpperChars[i] = c]
    ELSE c

\* str::to_lowercase
to_lowercase(s) == [i \in 1..Len(s) |-> LowerChar(s[i])]

\* the first index at which pat occurs in s, 0 when it does not occur
Find(s, pat) ==
    LET starts == {i \in 1..(Len(s) - Len(pat) + 1) : SubSeq(s, i, i + Len(pat) - 1) = pat}
    IN IF starts = {} THEN 0 ELSE CHOOSE i \in starts : \A j \in starts : i <= j

\* str::contains
contains(s, pat) == Find(s, pat) > 0

\* <str as Ord>::cmp: -1, 0 or 1
RECURSIVE StrCmpFrom(_, _, _)
StrCmpFrom(a, b, i) ==
    IF i > Len(a) /\ i > Len(b) THEN 0
    ELSE IF i > Len(a) THEN -1
    ELSE IF i > Len(b) THEN 1
    ELSE IF Code(a[i]) < Code(b[i]) THEN -1
    ELSE IF Code(a[i]) > Code(b[i]) THEN 1
    ELSE StrCmpFrom(a, b, i + 1)

StrCmp(a, b) == StrCmpFrom(a, b, 1)

\* char::is_whitespace, and the class \s of the regex crate
IsSpace(c) == c \in {" ", "\n"}

\* str::trim
trim(s) ==
    LET keep == {i \in 1..Len(s) : ~IsSpace(s[i])}
    IN IF keep = {} THEN <<>>
       ELSE SubSeq(s, CHOOSE i \in keep : \A j \in keep : i <= j,
                      CHOOSE i \in keep : \A j \in keep : i >= j)

\* str::split(","): the pieces between the commas, empty pieces included
RECURSIVE split_comma(_)
split_comma(s) ==
    LET i == Find(s, <<",">>)
    IN IF i = 0 THEN <<s>>
       ELSE <<SubSeq(s, 1, i - 1)>> \o split_comma(SubSeq(s, i + 1, Len(s)))

(***************************************************************************)
(* The two regular expressions of scrape.rs.                               *)
(***************************************************************************)
\* the character class [A-Z0-9,] of ALLERGEN_REGEX
AllergenClass == {"A", "B", "C", "D", "E", "F", "G", "H", "I", "J", "K", "L", "M",
                  "N", "O", "P", "Q", "R", "S", "T", "U", "V", "W", "X", "Y", "Z",
                  "0", "1", "2", "3", "4", "5", "6", "7", "8", "9", ","}

\* ALLERGEN_REGEX = \(([A-Z0-9,]*)\) anchored at i: the index of the closing
\* parenthesis of the match that starts at i, 0 when none starts there
ALLERGEN_REGEX(s, i) ==
    IF i > Len(s) \/ s[i] # "(" THEN 0
    ELSE LET stops == {j \in (i + 1)..Len(s) : s[j] \notin AllergenClass}
         IN IF stops = {} THEN 0
            ELSE LET j == CHOOSE k \in stops : \A m \in stops : k <= m
                 IN IF s[j] = ")" THEN j ELSE 0

\* Regex::replace_all(text, "") for ALLERGEN_REGEX: leftmost matches, never
\* overlapping, the scan resuming behind each match
RECURSIVE replace_allergens(_, _)
replace_allergens(s, i) ==
    IF i > Len(s) THEN <<>>
    ELSE LET e == ALLERGEN_REGEX(s, i)
         IN IF e > 0 THEN replace_allergens(s, e + 1)
            ELSE <<s[i]>> \o replace_allergens(s, i + 1)

\* Regex::captures_iter for ALLERGEN_REGEX: group 1 of every match, in order
RECURSIVE captures_iter(_, _)
captures_iter(s, i) ==
    IF i > Len(s) THEN <<>>
    ELSE LET e == ALLERGEN_REGEX(s, i)
         IN IF e > 0 THEN <<SubSeq(s, i + 1, e - 1)>> \o captures_iter(s, e + 1)
            ELSE captures_iter(s, i + 1)

\* SPACE_REGEX = \s\s+ with Regex::replace_all(text, " "): every maximal run of
\* two or more whitespace characters becomes one space
RECURSIVE replace_spaces(_, _)
replace_spaces(s, i) ==
    IF i > Len(s) THEN <<>>
    ELSE IF IsSpace(s[i]) /\ i < Len(s) /\ IsSpace(s[i + 1])
    THEN LET stops == {j \in i..Len(s) : ~IsSpace(s[j])}
             e == IF stops = {} THEN Len(s) + 1
                  ELSE CHOOSE k \in stops : \A m \in stops : k <= m
         IN <<" ">> \o replace_spaces(s, e)
    ELSE <<s[i]>> \o replace_spaces(s, i + 1)

(***************************************************************************)
(* Text normalizer and allergen extractor.                                 *)
(***************************************************************************)
\* scrape::remove_allergens
remove_allergens(text) == trim(replace_spaces(replace_allergens(text, 1), 1))

\* variant: the codes are kept in the order of their first occurrence
BTreeInsert_unordered(set, x) ==
    IF \E i \in 1..Len(set) : set[i] = x THEN set ELSE Append(set, x)

\* BTreeSet<String>::insert on the set kept as its ascending key sequence
BTreeInsert(set, x) ==
    IF \E i \in 1..Len(set) : set[i] = x THEN set
    ELSE LET below == {i \in 1..Len(set) : StrCmp(set[i], x) < 0}
             n == Cardinality(below)
         IN SubSeq(set, 1, n) \o <<x>> \o SubSeq(set, n + 1, Len(set))

\* Iterator::collect into the BTreeSet of an AllergenList
RECURSIVE BTreeCollect(_, _)
BTreeCollect(set, items) ==
    IF items = <<>> THEN set
    ELSE BTreeCollect(BTreeInsert(set, Head(items)), Tail(items))

\* flat_map(|s| s.split(",")) over the captures
RECURSIVE flat_map_split(_)
flat_map_split(caps) ==
    IF caps = <<>> THEN <<>>
    ELSE split_comma(Head(caps)) \o flat_map_split(Tail(caps))

\* variant: empty pieces are not taken for codes
AllergenList_from_nonempty(s) ==
    LET NonEmpty(x) == x # <<>>
    IN BTreeCollect(<<>>, SelectSeq(flat_map_split(captures_iter(s, 1)), NonEmpty))

\* impl From<(&Regex, &str)> for AllergenList
AllergenList_from(s) == BTreeCollect(<<>>, flat_map_split(captures_iter(s, 1)))

\* scrape::collect_allergens
collect_allergens(full_text) == AllergenList_from(full_text)

\* AllergenList::is_empty
is_empty(allergens) == allergens = <<>>

(***************************************************************************)
(* Category classifiers (meal.rs).                                         *)
(***************************************************************************)
\* enum MealType, in declaration order (the derived Ord)
MealType == <<"Klassiker", "Tellergericht", "Empfehlung", "Wok", "BurgerClassics",
              "BurgerWoche", "PizzaTag", "Vegetarisch", "Unbekannt">>

\* enum SideType, in declaration order (the derived Ord)
SideType == <<"Main", "Secondary", "Unknown">>

\* the values of an enumeration
Enumerants(enum) == {enum[i] : i \in 1..Len(enum)}

\* the discriminant a derived Ord compares
Discriminant(enum, v) == CHOOSE i \in 1..Len(enum) : enum[i] = v

\* variant: the Klassiker entry is tried first
NAMES_MAIN_klassiker_first == <<
    [typ |-> "Klassiker", de |-> S("Klassiker"), en |-> S("Classics")],
    [typ |-> "BurgerClassics", de |-> S("Burger Classics"), en |-> S("Burger Classics")],
    [typ |-> "BurgerWoche", de |-> S("Burger der Woche"), en |-> S("Burger of the week")],
    [typ |-> "Tellergericht", de |-> S("Tellergericht"), en |-> S("Stew")],
    [typ |-> "PizzaTag", de |-> S("Pizza des Tages"), en |-> S("Pizza of the Day")],
    [typ |-> "Vegetarisch", de |-> S("Vegetarisch"), en |-> S("Vegetarian")],
    [typ |-> "Empfehlung", de |-> S("Empfehlung des Tages"), en |-> S("Suggestion of the day")],
    [typ |-> "Wok", de |-> S("Wok"), en |-> S("Wok")] >>

NAMES_MAIN == <<
    [typ |-> "BurgerClassics", de |-> S("Burger Classics"), en |-> S("Burger Classics")],
    [typ |-> "BurgerWoche", de |-> S("Burger der Woche"), en |-> S("Burger of the week")],
    [typ |-> "Tellergericht", de |-> S("Tellergericht"), en |-> S("Stew")],
    [typ |-> "PizzaTag", de |-> S("Pizza des Tages"), en |-> S("Pizza of the Day")],
    [typ |-> "Vegetarisch", de |-> S("Vegetarisch"), en |-> S("Vegetarian")],
    [typ |-> "Empfehlung", de |-> S("Empfehlung des Tages"), en |-> S("Suggestion of the day")],
    [typ |-> "Klassiker", de |-> S("Klassiker"), en |-> S("Classics")],
    [typ |-> "Wok", de |-> S("Wok"), en |-> S("Wok")] >>

\* variant: an earlier entry whose English label is part of a later one
NAMES_SIDE_shadowing == <<
    [typ |-> "Secondary", de |-> S("Gemüsebeilage"), en |-> S("side-dish")],
    [typ |-> "Main", de |-> S("Sättigungsbeilage"), en |-> S("Main side-dish")],
    [typ |-> "Main", de |-> S("Hauptbeilage"), en |-> S("Main side-dish")],
    [typ |-> "Secondary", de |-> S("Nebenbeilage"), en |-> S("Secondary")] >>

NAMES_SIDE == <<
    [typ |-> "Main", de |-> S("Sättigungsbeilage"), en |-> S("Main side-dish")],
    [typ |-> "Main", de |-> S("Hauptbeilage"), en |-> S("Main side-dish")],
    [typ |-> "Secondary", de |-> S("Gemüsebeilage"), en |-> S("Secondary")],
    [typ |-> "Secondary", de |-> S("Nebenbeilage"), en |-> S("Secondary")] >>

\* variant: an input that holds no label of the table is an error
from_str_err_on_no_match(names, fallback, s) ==
    LET low == to_lowercase(s)
        hits == {i \in 1..Len(names) :
                    \/ contains(low, to_lowercase(names[i].en))
                    \/ contains(low, to_lowercase(names[i].de))}
    IN IF hits = {} THEN "Err"
       ELSE names[CHOOSE i \in hits : \A j \in hits : i <= j].typ

\* the loop of both from_str implementations: the first entry of the table
\* whose English or German label, lower-cased, occurs in the lower-cased input
from_str(names, fallback, s) ==
    LET low == to_lowercase(s)
        hits == {i \in 1..Len(names) :
                    \/ contains(low, to_lowercase(names[i].en))
                    \/ contains(low, to_lowercase(names[i].de))}
    IN IF hits = {} THEN fallback
       ELSE names[CHOOSE i \in hits : \A j \in hits : i <= j].typ

\* MealType::from_str / MealType::infer
MealType_infer(s) == from_str(NAMES_MAIN, "Unbekannt", s)

\* SideType::from_str / SideType::infer
SideType_infer(s) == from_str(NAMES_SIDE, "Unknown", s)

\* the body of both name() implementations: the label, in the asked language,
\* of the first entry of the table for the enumerant, "Unbekannt" / "Unknown"
\* when the table has none
find_name(names, self, english) ==
    LET found == {i \in 1..Len(names) : names[i].typ = self}
        entry == IF found = {} THEN [de |-> S("Unbekannt"), en |-> S("Unknown")]
                 ELSE names[CHOOSE i \in found : \A j \in found : i <= j]
    IN IF english THEN entry.en ELSE entry.de

\* MealType::name
MealType_name(self, english) == find_name(NAMES_MAIN, self, english)

\* SideType::name
SideType_name(self, english) == find_name(NAMES_SIDE, self, english)

(***************************************************************************)
(* Vegan heuristic (scrape.rs).                                            *)
(***************************************************************************)
\* variant: the keywords are searched without lower-casing the markup
vegan_detektiv_case_sensitive(typ, html) ==
    IF typ = "Vegetarisch" THEN TRUE
    ELSE \/ contains(html, S("vegan"))
         \/ contains(html, S("vegetarian"))
         \/ contains(html, S("vegetarisch"))

\* scrape::vegan_detektiv
vegan_detektiv(typ, html) ==
    IF typ = "Vegetarisch" THEN TRUE
    ELSE LET t == to_lowercase(html)
         IN \/ contains(t, S("vegan"))
            \/ contains(t, S("vegetarian"))
            \/ contains(t, S("vegetarisch"))

(***************************************************************************)
(* The parsed page.  A node of the tree is a text node (tag = <<>>) or an  *)
(* element with a tag, a class list and children; a cell (td) is the       *)
(* sequence of its children, a row (tr) the sequence of its cells in       *)
(* document order.                                                         *)
(***************************************************************************)
Text(s) == [tag |-> <<>>, cls |-> <<>>, s |-> S(s), kids |-> <<>>]
Elem(tag, cls, kids) == [tag |-> S(tag), cls |-> cls, s |-> <<>>, kids |-> kids]
Br == Elem("br", <<>>, <<>>)

RECURSIVE Join(_, _)
Join(strs, sep) ==
    IF strs = <<>> THEN <<>>
    ELSE IF Len(strs) = 1 THEN strs[1]
    ELSE strs[1] \o sep \o Join(Tail(strs), sep)

\* ElementRef::inner_html: the serialization of the children.  br is a void
\* element and is written <br>.
RECURSIVE inner_html(_)
inner_html(kids) ==
    IF kids = <<>> THEN <<>>
    ELSE LET n == Head(kids)
             me == IF n.tag = <<>> THEN n.s
                   ELSE IF n.tag = S("br") THEN S("<br>")
                   ELSE S("<") \o n.tag
                        \o (IF n.cls = <<>> THEN <<>>
                            ELSE S(" class=\"") \o Join(n.cls, S(" ")) \o S("\""))
                        \o S(">") \o inner_html(n.kids) \o S("</") \o n.tag \o S(">")
         IN me \o inner_html(Tail(kids))

\* ElementRef::text: the text nodes below the element, in document order
RECURSIVE text(_)
text(kids) ==
    IF kids = <<>> THEN <<>>
    ELSE LET n == Head(kids)
         IN (IF n.tag = <<>> THEN <<n.s>> ELSE text(n.kids)) \o text(Tail(kids))

\* ElementRef::select(sel): the descendant elements of class c, in document
\* order
RECURSIVE select_class(_, _)
select_class(kids, c) ==
    IF kids = <<>> THEN <<>>
    ELSE LET n == Head(kids)
         IN (IF n.tag # <<>> /\ (\E i \in 1..Len(n.cls) : n.cls[i] = c)
             THEN <<n>> ELSE <<>>)
            \o select_class(n.kids, c) \o select_class(Tail(kids), c)

SEL_X_DTEXT == S("dish-text")

\* variant: the markup is split at its last <br>
price_of_last_br(type_text) ==
    LET starts == {i \in 1..(Len(type_text) - 3) : SubSeq(type_text, i, i + 3) = S("<br>")}
    IN IF starts = {} THEN <<>>
       ELSE SubSeq(type_text, (CHOOSE i \in starts : \A j \in starts : i >= j) + 4,
                   Len(type_text))

\* str::split_once("<br>").unwrap_or(("", "")).1
price_of(type_text) ==
    LET i == Find(type_text, S("<br>"))
    IN IF i = 0 THEN <<>> ELSE SubSeq(type_text, i + 4, Len(type_text))

\* Iterator::collect::<String>() over text runs
RECURSIVE collect_string(_)
collect_string(runs) ==
    IF runs = <<>> THEN <<>> ELSE Head(runs) \o collect_string(Tail(runs))

(***************************************************************************)
(* Table extractor (scrape::scrape_page), one step per table cell.  The    *)
(* locals of one call are the record c.                                    *)
(***************************************************************************)
OPEN_DAYS == 5

Days == 0..(OPEN_DAYS - 1)

\* the state of a call on entry: both arrays hold OPEN_DAYS empty vectors
scrape_page(doc) ==
    [pc |-> "main_row", doc |-> doc, row_num |-> 0, col_num |-> 0,
     typ |-> "", price |-> <<>>, ret |-> "none",
     main_dishes |-> [d \in Days |-> <<>>],
     side_dishes |-> [d \in Days |-> <<>>]]

\* log::error!(..); panic!(): the call unwinds and nothing is returned
panic(c) == [c EXCEPT !.pc = "panicked"]

\* the end of the body of the column loop
next_col(c, row_pc) ==
    IF c.col_num + 1 < OPEN_DAYS THEN [c EXCEPT !.col_num = c.col_num + 1]
    ELSE [c EXCEPT !.col_num = 0, !.row_num = c.row_num + 1, !.pc = row_pc]

\* first cell of a main-dish row: the meal type and the price
main_first_cell(c) ==
    LET row == c.doc.main[c.row_num + 1]
    IN IF Len(row) = 0 THEN panic(c)
       ELSE LET type_text == inner_html(row[1])
            IN [c EXCEPT !.typ = MealType_infer(type_text),
                         !.price = price_of(type_text),
                         !.col_num = 0,
                         !.pc = "main_cell"]

\* variant: the allergens are collected from the cleaned texts
meal_info_cleaned_first(typ, price, curr, runs) ==
    LET text_v == remove_allergens(trim(runs[1]))
        subtext_v == remove_allergens(collect_string(Tail(runs)))
    IN [typ |-> typ,
        text |-> text_v,
        subtext |-> subtext_v,
        price |-> price,
        allergens |-> collect_allergens(text_v \o subtext_v),
        vegan |-> vegan_detektiv(typ, inner_html(curr))]

\* the MealInfo pushed for a weekday cell with a dish-text element
meal_info(typ, price, curr, runs) ==
    LET text_v == trim(runs[1])
        subtext_v == collect_string(Tail(runs))
    IN [typ |-> typ,
        text |-> remove_allergens(text_v),
        subtext |-> remove_allergens(subtext_v),
        price |-> price,
        allergens |-> collect_allergens(text_v \o subtext_v),
        vegan |-> vegan_detektiv(typ, inner_html(curr))]

\* variant: a missing weekday cell is skipped like a cell without a dish
main_cell_skips_missing(c) ==
    LET row == c.doc.main[c.row_num + 1]
    IN IF Len(row) < c.col_num + 2 THEN next_col(c, "main_row")
       ELSE LET curr == row[c.col_num + 2]
                found == select_class(curr, SEL_X_DTEXT)
            IN IF found = <<>> THEN next_col(c, "main_row")
               ELSE LET runs == text(found[1].kids)
                    IN IF runs = <<>> THEN panic(c)
                       ELSE next_col(
                              [c EXCEPT !.main_dishes[c.col_num] =
                                  Append(@, meal_info(c.typ, c.price, curr, runs))],
                              "main_row")

\* one weekday cell of a main-dish row
main_cell(c) ==
    LET row == c.doc.main[c.row_num + 1]
    IN IF Len(row) < c.col_num + 2 THEN panic(c)
       ELSE LET curr == row[c.col_num + 2]
                found == select_class(curr, SEL_X_DTEXT)
            IN IF found = <<>> THEN next_col(c, "main_row")
               ELSE LET runs == text(found[1].kids)
                    IN IF runs = <<>> THEN panic(c)
                       ELSE next_col(
                              [c EXCEPT !.main_dishes[c.col_num] =
                                  Append(@, meal_info(c.typ, c.price, curr, runs))],
                              "main_row")

\* the main-dish rows are exhausted
main_rows_done(c) == [c EXCEPT !.pc = "side_row", !.row_num = 0, !.col_num = 0]

\* first cell of a side-dish row: the side type
side_first_cell(c) ==
    LET row == c.doc.side[c.row_num + 1]
    IN IF Len(row) = 0 THEN panic(c)
       ELSE [c EXCEPT !.typ = SideType_infer(inner_html(row[1])),
                      !.col_num = 0,
                      !.pc = "side_cell"]

\* variant: the separator runs are not filtered out
alternatives_unfiltered(runs) ==
    [i \in 1..Len(runs) |->
        [text |-> remove_allergens(runs[i]), allergens |-> collect_allergens(runs[i])]]

\* .filter(|s| s.ne(&"oder") && s.ne(&"or")).map(..).collect()
RECURSIVE alternatives(_)
alternatives(runs) ==
    IF runs = <<>> THEN <<>>
    ELSE LET s == Head(runs)
         IN (IF s # S("oder") /\ s # S("or")
             THEN <<[text |-> remove_allergens(s), allergens |-> collect_allergens(s)]>>
             ELSE <<>>)
            \o alternatives(Tail(runs))

\* variant: a weekday cell without any alternative yields no SideInfo
side_cell_skips_empty(c) ==
    LET row == c.doc.side[c.row_num + 1]
    IN IF Len(row) < c.col_num + 2 THEN panic(c)
       ELSE LET curr == row[c.col_num + 2]
            IN IF alternatives(text(curr)) = <<>> THEN next_col(c, "side_row")
               ELSE next_col(
                      [c EXCEPT !.side_dishes[c.col_num] =
                          Append(@, [typ |-> c.typ, alternatives |-> alternatives(text(curr))])],
                      "side_row")

\* one weekday cell of a side-dish row
side_cell(c) ==
    LET row == c.doc.side[c.row_num + 1]
    IN IF Len(row) < c.col_num + 2 THEN panic(c)
       ELSE LET curr == row[c.col_num + 2]
            IN next_col(
                 [c EXCEPT !.side_dishes[c.col_num] =
                     Append(@, [typ |-> c.typ, alternatives |-> alternatives(text(curr))])],
                 "side_row")

\* Ok(WeekData { main_dishes, side_dishes })
WeekData(c) == [main_dishes |-> c.main_dishes, side_dishes |-> c.side_dishes]

side_rows_done(c) == [c EXCEPT !.pc = "returned", !.ret = "Ok"]

(***************************************************************************)
(* Week model: the derived orders, sorted() and get_day().                 *)
(***************************************************************************)
\* Ord for a lexicographically compared sequence (Vec<T>, BTreeSet<T>) of
\* lengths la and lb, from the comparisons cmps of the elements at the same
\* index
SeqCmp(la, lb, cmps) ==
    LET diff == {i \in 1..Len(cmps) : cmps[i] # 0}
    IN IF diff = {}
       THEN (IF la < lb THEN -1 ELSE IF la > lb THEN 1 ELSE 0)
       ELSE cmps[CHOOSE k \in diff : \A j \in diff : k <= j]

\* the length of the shorter sequence
MinLen(a, b) == IF Len(a) < Len(b) THEN Len(a) ELSE Len(b)

IntCmp(a, b) == IF a < b THEN -1 ELSE IF a > b THEN 1 ELSE 0

BoolCmp(a, b) == IntCmp(IF a THEN 1 ELSE 0, IF b THEN 1 ELSE 0)

\* derived Ord of AllergenList(BTreeSet<String>)
AllergenList_cmp(a, b) ==
    SeqCmp(Len(a), Len(b), [i \in 1..MinLen(a, b) |-> StrCmp(a[i], b[i])])

\* variant: the text is compared before the type
MealInfo_cmp_text_first(a, b) ==
    LET t == IntCmp(Discriminant(MealType, a.typ), Discriminant(MealType, b.typ))
    IN IF StrCmp(a.text, b.text) # 0 THEN StrCmp(a.text, b.text)
       ELSE IF t # 0 THEN t
       ELSE IF StrCmp(a.subtext, b.subtext) # 0 THEN StrCmp(a.subtext, b.subtext)
       ELSE IF StrCmp(a.price, b.price) # 0 THEN StrCmp(a.price, b.price)
       ELSE IF AllergenList_cmp(a.allergens, b.allergens) # 0
            THEN AllergenList_cmp(a.allergens, b.allergens)
       ELSE BoolCmp(a.vegan, b.vegan)

\* derived Ord of MealInfo: the fields in declaration order
MealInfo_cmp(a, b) ==
    LET t == IntCmp(Discriminant(MealType, a.typ), Discriminant(MealType, b.typ))
    IN IF t # 0 THEN t
       ELSE IF StrCmp(a.text, b.text) # 0 THEN StrCmp(a.text, b.text)
       ELSE IF StrCmp(a.subtext, b.subtext) # 0 THEN StrCmp(a.subtext, b.subtext)
       ELSE IF StrCmp(a.price, b.price) # 0 THEN StrCmp(a.price, b.price)
       ELSE IF AllergenList_cmp(a.allergens, b.allergens) # 0
            THEN AllergenList_cmp(a.allergens, b.allergens)
       ELSE BoolCmp(a.vegan, b.vegan)

\* derived Ord of SideAlternative
SideAlternative_cmp(a, b) ==
    IF StrCmp(a.text, b.text) # 0 THEN StrCmp(a.text, b.text)
    ELSE AllergenList_cmp(a.allergens, b.allergens)

\* derived Ord of SideInfo
SideInfo_cmp(a, b) ==
    LET t == IntCmp(Discriminant(SideType, a.typ), Discriminant(SideType, b.typ))
    IN IF t # 0 THEN t
       ELSE SeqCmp(Len(a.alternatives), Len(b.alternatives),
                   [i \in 1..MinLen(a.alternatives, b.alternatives) |->
                       SideAlternative_cmp(a.alternatives[i], b.alternatives[i])])

\* variant: an entry equal to one already placed is dropped
SortedInsert_dedup(p, k, cmp) ==
    IF \E i \in 1..Len(p) : cmp[p[i], k] = 0 THEN p
    ELSE LET n == Cardinality({i \in 1..Len(p) : cmp[p[i], k] <= 0})
         IN SubSeq(p, 1, n) \o <<k>> \o SubSeq(p, n + 1, Len(p))

\* insertion of the entry at index k behind the last placed entry that is not
\* greater (stable); p holds the indices of the entries placed so far and
\* cmp[i, j] is the comparison of the entries at the indices i and j
SortedInsert(p, k, cmp) ==
    LET n == Cardinality({i \in 1..Len(p) : cmp[p[i], k] <= 0})
    IN SubSeq(p, 1, n) \o <<k>> \o SubSeq(p, n + 1, Len(p))

\* Vec::sort: a stable sort by Ord
sort(v, cmp) ==
    LET upto[i \in 0..Len(v)] ==
            IF i = 0 THEN <<>> ELSE SortedInsert(upto[i - 1], i, cmp)
        perm == upto[Len(v)]
    IN [i \in 1..Len(perm) |-> v[perm[i]]]

\* WeekData::sorted
sorted(w) ==
    [main_dishes |->
        [d \in Days |->
            LET m == w.main_dishes[d]
            IN sort(m, [i \in 1..Len(m), j \in 1..Len(m) |-> MealInfo_cmp(m[i], m[j])])],
     side_dishes |->
        [d \in Days |->
            LET sd == w.side_dishes[d]
            IN sort(sd, [i \in 1..Len(sd), j \in 1..Len(sd) |-> SideInfo_cmp(sd[i], sd[j])])]]

\* no DayView has been asked for
NoView == [day |-> -1, panic |-> FALSE, ok |-> FALSE,
           main_dishes |-> <<>>, side_dishes |-> <<>>]

\* variant: an index behind the last day is clamped to the last day
get_day_clamped(w, day) ==
    LET d == IF day >= OPEN_DAYS THEN OPEN_DAYS - 1 ELSE day
    IN [day |-> day, panic |-> FALSE, ok |-> TRUE,
        main_dishes |-> w.main_dishes[d], side_dishes |-> w.side_dishes[d]]

\* WeekData::get_day
get_day(w, day) ==
    IF day >= OPEN_DAYS
    THEN [day |-> day, panic |-> TRUE, ok |-> FALSE,
          main_dishes |-> <<>>, side_dishes |-> <<>>]
    ELSE [day |-> day, panic |-> FALSE, ok |-> TRUE,
          main_dishes |-> w.main_dishes[day], side_dishes |-> w.side_dishes[day]]

(***************************************************************************)
(* Day selection of the command line (acmensa-cli/src/main.rs).  A time is *)
(* a number of milliseconds since the Monday 00:00 of the current week; a  *)
(* calendar date is a number of days since that Monday.                    *)
(***************************************************************************)
DayMs == 86400000

\* Weekday::number_from_monday of a date
number_from_monday(date) == (date % 7) + 1

\* main: the DateCtx of a run started on weekday day_n (1 = Monday)
DateCtx(day_n) ==
    LET now == (day_n - 1) * DayMs
    IN [now |-> now,
        day_n |-> day_n,
        first_avail_date |-> now - (day_n - 1) * DayMs,
        last_avail_date |-> now + (13 - day_n) * DayMs - 1]

NoDate == -100

\* handle_menu up to the fetch: the pair (next_week, idx), or a panic
handle_menu(opts, datectx) ==
    LET fail == [panic |-> TRUE, next_week |-> FALSE, idx |-> -1]
    IN IF opts.date # NoDate
       THEN IF number_from_monday(opts.date) \in {6, 7} THEN fail
            ELSE LET date == opts.date * DayMs
                 IN IF date > datectx.last_avail_date \/ date < datectx.first_avail_date
                    THEN fail
                    ELSE LET diff == (date - datectx.first_avail_date) \div DayMs
                         IN [panic |-> FALSE, next_week |-> diff > 6, idx |-> diff % 7]
       ELSE IF opts.day = "Today"
       THEN IF number_from_monday(datectx.now \div DayMs) \in {6, 7} THEN fail
            ELSE LET diff == (datectx.now - datectx.first_avail_date) \div DayMs
                 IN [panic |-> FALSE, next_week |-> diff > 6, idx |-> diff % 7]
       ELSE LET next_week == datectx.day_n > 5
            IN [panic |-> FALSE, next_week |-> next_week,
                idx |-> IF next_week THEN 0 ELSE datectx.day_n]

(***************************************************************************)
(* Inputs: pages.                                                          *)
(***************************************************************************)
DishText(kids) == Elem("p", <<SEL_X_DTEXT>>, kids)

\* first cells of main-dish rows
LblKlassikerPlain == <<Text("Klassiker (A,B) 2,50 €")>>
LblKlassikerBr == <<Text("Klassiker (A,B) "), Br, Text("2,50 €")>>
LblWok == <<Text("Wok"), Br, Text("3,80 €")>>
LblBurger == <<Elem("b", <<>>, <<Text("Burger Classics")>>), Br, Text("4,90 €"), Br, Text("klein")>>
LblVegetarisch == <<Text("Vegetarisch"), Br, Text("2,20 €")>>
LblSuppe == <<Text("Suppe")>>

\* weekday cells of main-dish rows
CellEmpty == <<>>
CellClosed == <<Text("geschlossen")>>
CellSchnitzelOneRun == <<DishText(<<Text("Schnitzel (C)\nmit Sauce")>>)>>
CellSchnitzelTwoRuns == <<DishText(<<Text("Schnitzel (C)"), Br, Text("\nmit Sauce")>>)>>
CellCurry ==
    <<DishText(<<Text(" Curry (A1,G) "), Br, Text("mit Reis (A)"),
                 Elem("i", <<>>, <<Text(" und  Salat")>>)>>),
      Elem("span", <<S("icon"), S("Vegan")>>, <<>>)>>
CellNoText == <<DishText(<<Br>>)>>
\* an allergen marker wrapped over a line break of the dish text
CellSuppe == <<DishText(<<Text("Suppe (A,\n"), Br, Text("G) mit Brot (C)")>>)>>

\* first cells of side-dish rows
LblSideMain == <<Text("Sättigungsbeilage")>>
LblSideSecondary == <<Text("Gemüsebeilage")>>
LblSideOther == <<Text("Beilage")>>

\* weekday cells of side-dish rows
SideOneRun == <<Text("Kartoffeln (A) oder Reis")>>
SideSepRun ==
    <<Text("Kartoffeln (A) "), Elem("span", <<S("seperator")>>, <<Text("oder")>>), Text(" Reis")>>
SideSepRunEn ==
    <<Text("Broccoli (G)"), Elem("span", <<S("seperator")>>, <<Text("or")>>), Text("Salad")>>

\* n weekday cells, all alike
Uniform(cell, n) == [i \in 1..n |-> cell]

\* n weekday cells, cell on Monday, Wednesday, Friday and other in between
Mixed(cell, other, n) == [i \in 1..n |-> IF i % 2 = 1 THEN cell ELSE other]

MainRows ==
    { <<LblKlassikerPlain>> \o Uniform(CellSchnitzelOneRun, 5),
      <<LblKlassikerBr>> \o Uniform(CellSchnitzelTwoRuns, 5),
      <<LblWok>> \o Mixed(CellCurry, CellEmpty, 5),
      <<LblBurger>> \o Uniform(CellSchnitzelTwoRuns, 6),
      <<LblVegetarisch>> \o Mixed(CellSchnitzelOneRun, CellClosed, 5),
      <<LblSuppe>> \o Uniform(CellCurry, 5),
      <<LblWok>> \o Uniform(CellSchnitzelTwoRuns, 4),
      <<LblKlassikerBr>> \o Mixed(CellCurry, CellNoText, 5),
      <<LblSuppe>> \o Mixed(CellSuppe, CellSchnitzelOneRun, 5),
      <<>> }

SideRows ==
    { <<LblSideMain>> \o Uniform(SideOneRun, 5),
      <<LblSideMain>> \o Uniform(SideSepRun, 5),
      <<LblSideSecondary>> \o Mixed(SideSepRunEn, CellEmpty, 5),
      <<LblSideOther>> \o Uniform(SideSepRun, 3),
      <<>> }

\* the sequences over set of length at most n
SeqsUpTo(set, n) == UNION {[1..k -> set] : k \in 0..n}

\* the pages with at most MaxRows dish rows
Docs ==
    UNION {{[main |-> m, side |-> sd] : m \in [1..k -> MainRows],
                                        sd \in SeqsUpTo(SideRows, MaxRows - k)}
           : k \in 0..MaxRows}

\* a row is malformed when its first cell or one of its OPEN_DAYS weekday
\* cells is missing
Malformed(row) == Len(row) < OPEN_DAYS + 1

(***************************************************************************)
(* The extraction pipeline as a state machine: scrape_page cell by cell,   *)
(* then sorted() and get_day() on the returned WeekData.                   *)
(***************************************************************************)
NoWeek == [main_dishes |-> <<>>, side_dishes |-> <<>>]
NoCall == [pc |-> "none", ret |-> "none"]
NoSel == [panic |-> FALSE, next_week |-> FALSE, idx |-> -1]
NoCli == [day_n |-> 0, opts |-> [date |-> NoDate, day |-> "Today"], sel |-> NoSel]
NoArg == [typ |-> "", s |-> <<>>]
NoOut == [fn |-> "none", val |-> <<>>, once |-> <<>>]
NoStatics == <<>>

Init ==
    /\ pc = "scrape_page"
    /\ \E doc \in Docs : call = scrape_page(doc)
    /\ week = NoWeek
    /\ sortedw = NoWeek
    /\ view = NoView
    /\ arg = NoArg
    /\ out = NoOut
    /\ cli = NoCli
    /\ statics = NoStatics

\* a step of the running call; a panic ends the caller too
Step(c) ==
    /\ call' = c
    /\ pc' = IF c.pc = "panicked" THEN "panicked" ELSE pc
    /\ UNCHANGED <<arg, out, week, sortedw, view, cli, statics>>

MainFirstCell ==
    /\ pc = "scrape_page" /\ call.pc = "main_row"
    /\ call.row_num < Len(call.doc.main)
    /\ Step(main_first_cell(call))

MainCell ==
    /\ pc = "scrape_page" /\ call.pc = "main_cell"
    /\ Step(main_cell(call))

MainRowsDone ==
    /\ pc = "scrape_page" /\ call.pc = "main_row"
    /\ call.row_num = Len(call.doc.main)
    /\ Step(main_rows_done(call))

SideFirstCell ==
    /\ pc = "scrape_page" /\ call.pc = "side_row"
    /\ call.row_num < Len(call.doc.side)
    /\ Step(side_first_cell(call))

SideCell ==
    /\ pc = "scrape_page" /\ call.pc = "side_cell"
    /\ Step(side_cell(call))

\* the call returns Ok(WeekData)
SideRowsDone ==
    /\ pc = "scrape_page" /\ call.pc = "side_row"
    /\ call.row_num = Len(call.doc.side)
    /\ call' = side_rows_done(call)
    /\ week' = WeekData(call)
    /\ pc' = "returned"
    /\ UNCHANGED <<arg, out, sortedw, view, cli, statics>>

Sorted ==
    /\ pc = "returned"
    /\ sortedw' = sorted(week)
    /\ pc' = "sorted"
    /\ UNCHANGED <<arg, out, call, week, view, cli, statics>>

\* get_day on the returned WeekData or on its sorted copy
GetDay ==
    /\ pc \in {"returned", "sorted"}
    /\ \E day \in 0..MaxDay :
        view' = get_day(IF pc = "sorted" THEN sortedw ELSE week, day)
    /\ pc' = IF view'.panic THEN "usage_panic" ELSE "viewed"
    /\ UNCHANGED <<arg, out, call, week, sortedw, cli, statics>>

Next ==
    \/ MainFirstCell
    \/ MainCell
    \/ MainRowsDone
    \/ SideFirstCell
    \/ SideCell
    \/ SideRowsDone
    \/ Sorted
    \/ GetDay

Spec == Init /\ [][Next]_vars

(***************************************************************************)
(* The text normalizer and the allergen extractor applied to bounded       *)
(* texts.                                                                  *)
(***************************************************************************)
TextChars == {"(", ")", "A", "C", ",", " "}

ExampleTexts ==
    { S("Soup (A,C,A)"), S("((A))"), S("(A(B)C)"), S("Schnitzel (C)\nmit Sauce"),
      S("Reis (C1,A) (A,C1)"), S(" Curry (A1,G)  mit  Reis () ") }

Texts == SeqsUpTo(TextChars, MaxLen) \cup ExampleTexts

InitText ==
    /\ pc = "text_in"
    /\ \E t \in Texts : arg = [typ |-> "", s |-> t]
    /\ out = NoOut
    /\ call = NoCall
    /\ week = NoWeek
    /\ sortedw = NoWeek
    /\ view = NoView
    /\ cli = NoCli
    /\ statics = NoStatics

RemoveAllergens ==
    /\ pc = "text_in"
    /\ out' = [fn |-> "remove_allergens", val |-> remove_allergens(arg.s), once |-> <<>>]
    /\ pc' = "text_out"
    /\ UNCHANGED <<arg, call, week, sortedw, view, cli, statics>>

\* the cleaned text is cleaned again
RemoveAllergensAgain ==
    /\ pc = "text_out"
    /\ out.fn = "remove_allergens"
    /\ out' = [fn |-> "remove_allergens_twice", val |-> remove_allergens(out.val),
               once |-> out.val]
    /\ UNCHANGED <<pc, arg, call, week, sortedw, view, cli, statics>>

CollectAllergens ==
    /\ pc = "text_in"
    /\ out' = [fn |-> "collect_allergens", val |-> collect_allergens(arg.s), once |-> <<>>]
    /\ pc' = "text_out"
    /\ UNCHANGED <<arg, call, week, sortedw, view, cli, statics>>

NextText ==
    \/ RemoveAllergens
    \/ RemoveAllergensAgain
    \/ CollectAllergens

SpecText == InitText /\ [][NextText]_vars

(***************************************************************************)
(* The classifiers and the vegan heuristic applied to labels and markup    *)
(* put together from at most MaxParts pieces.                              *)
(***************************************************************************)
Pieces ==
    { S("Burger Classics"), S("BURGER CLASSICS"), S("burger classics"),
      S("Klassiker"), S("Classics"), S("Wok"), S("<br>2,50 €"), S("<b>"),
      S("Contains vegan sauce"), S("VEGETARISCH"), S("Vegetarian"), S("Schnitzel"),
      S("Sättigungsbeilage"), S("Secondary") }

Labels == {collect_string(ps) : ps \in SeqsUpTo(Pieces, MaxParts)}

HeurTypes == {"Vegetarisch", "Klassiker", "Unbekannt"}

InitHeur ==
    /\ pc = "label_in"
    /\ \E t \in HeurTypes, l \in Labels : arg = [typ |-> t, s |-> l]
    /\ out = NoOut
    /\ call = NoCall
    /\ week = NoWeek
    /\ sortedw = NoWeek
    /\ view = NoView
    /\ cli = NoCli
    /\ statics = NoStatics

InferMeal ==
    /\ pc = "label_in"
    /\ out' = [fn |-> "MealType_infer", val |-> MealType_infer(arg.s), once |-> <<>>]
    /\ pc' = "label_out"
    /\ UNCHANGED <<arg, call, week, sortedw, view, cli, statics>>

InferSide ==
    /\ pc = "label_in"
    /\ out' = [fn |-> "SideType_infer", val |-> SideType_infer(arg.s), once |-> <<>>]
    /\ pc' = "label_out"
    /\ UNCHANGED <<arg, call, week, sortedw, view, cli, statics>>

VeganDetektiv ==
    /\ pc = "label_in"
    /\ out' = [fn |-> "vegan_detektiv", val |-> vegan_detektiv(arg.typ, arg.s), once |-> <<>>]
    /\ pc' = "label_out"
    /\ UNCHANGED <<arg, call, week, sortedw, view, cli, statics>>

NextHeur ==
    \/ InferMeal
    \/ InferSide
    \/ VeganDetektiv

SpecHeur == InitHeur /\ [][NextHeur]_vars

(***************************************************************************)
(* The menu command: day selection, fetch, extraction, sorted(), get_day.  *)
(***************************************************************************)
\* the pages the server answers with
CliDocs ==
    { [main |-> <<>>, side |-> <<>>],
      [main |-> << <<LblKlassikerBr>> \o Uniform(CellSchnitzelTwoRuns, 5) >>,
       side |-> << <<LblSideMain>> \o Uniform(SideSepRun, 5) >>],
      [main |-> << <<LblWok>> \o Uniform(CellSchnitzelTwoRuns, 4) >>, side |-> <<>>] }

InitCli ==
    /\ pc = "handle_menu"
    /\ \E n \in 1..7, date \in {NoDate} \cup (-1)..MaxDate, day \in {"Today", "Next"} :
        cli = [day_n |-> n, opts |-> [date |-> date, day |-> day], sel |-> NoSel]
    /\ arg = NoArg
    /\ out = NoOut
    /\ call = NoCall
    /\ week = NoWeek
    /\ sortedw = NoWeek
    /\ view = NoView
    /\ statics = NoStatics

\* handle_menu: (next_week, idx) from the options and the date context
HandleMenu ==
    /\ pc = "handle_menu"
    /\ cli' = [cli EXCEPT !.sel = handle_menu(cli.opts, DateCtx(cli.day_n))]
    /\ pc' = IF cli'.sel.panic THEN "panicked" ELSE "fetch"
    /\ UNCHANGED <<arg, out, call, week, sortedw, view, statics>>

\* handle_menu: the page of the selected week arrives and scrape_page starts
Fetch ==
    /\ pc = "fetch"
    /\ \E doc \in CliDocs : call' = scrape_page(doc)
    /\ pc' = "scrape_page"
    /\ UNCHANGED <<arg, out, week, sortedw, view, cli, statics>>

\* handle_menu: result.get_day(idx as usize)
MenuGetDay ==
    /\ pc = "sorted"
    /\ view' = get_day(sortedw, cli.sel.idx)
    /\ pc' = IF view'.panic THEN "usage_panic" ELSE "viewed"
    /\ UNCHANGED <<arg, out, call, week, sortedw, cli, statics>>

NextCli ==
    \/ HandleMenu
    \/ Fetch
    \/ MainFirstCell
    \/ MainCell
    \/ MainRowsDone
    \/ SideFirstCell
    \/ SideCell
    \/ SideRowsDone
    \/ Sorted
    \/ MenuGetDay

SpecCli == InitCli /\ [][NextCli]_vars

(***************************************************************************)
(* Two scrape_page calls running concurrently, each on its own page; the   *)
(* steps of the two calls interleave in any order.                         *)
(***************************************************************************)
Tasks == {1, 2}

\* the lazy_static items of scrape.rs and meal.rs: all the state the calls share
StaticNames ==
    {"ALLERGEN_REGEX", "SPACE_REGEX", "SEL_MAIN", "SEL_SIDE", "SEL_X_CELL",
     "SEL_X_DTEXT", "NAMES_MAIN", "NAMES_SIDE"}

\* the value an item is initialised with on its first use
StaticValue(n) ==
    CASE n = "ALLERGEN_REGEX" -> S("\\(([A-Z0-9,]*)\\)")
      [] n = "SPACE_REGEX" -> S("\\s\\s+")
      [] n = "SEL_MAIN" -> S("tr.main-dish")
      [] n = "SEL_SIDE" -> S("tr.side-dish")
      [] n = "SEL_X_CELL" -> S("td")
      [] n = "SEL_X_DTEXT" -> S(".dish-text")
      [] n = "NAMES_MAIN" -> NAMES_MAIN
      [] n = "NAMES_SIDE" -> NAMES_SIDE

\* no item is initialised before its first use
Uninit == [n \in StaticNames |-> [init |-> FALSE, val |-> <<>>]]

\* Deref of the items names: the first use of an item initialises it (once),
\* every later use reads it
deref(st, names) ==
    [n \in StaticNames |->
        IF n \in names /\ ~st[n].init THEN [init |-> TRUE, val |-> StaticValue(n)]
        ELSE st[n]]

\* the items the next step of the call c uses
StaticsUsed(c) ==
    {"SEL_MAIN", "SEL_SIDE"} \cup
    (IF c.pc = "main_row" /\ c.row_num < Len(c.doc.main)
     THEN {"SEL_X_CELL"} \cup
          (IF Len(c.doc.main[c.row_num + 1]) > 0 THEN {"NAMES_MAIN"} ELSE {})
     ELSE IF c.pc = "main_cell" /\ Len(c.doc.main[c.row_num + 1]) >= c.col_num + 2
     THEN {"SEL_X_DTEXT"} \cup
          (LET found == select_class(c.doc.main[c.row_num + 1][c.col_num + 2], SEL_X_DTEXT)
           IN IF found # <<>> /\ text(found[1].kids) # <<>>
              THEN {"ALLERGEN_REGEX", "SPACE_REGEX"} ELSE {})
     ELSE IF c.pc = "side_row" /\ c.row_num < Len(c.doc.side)
     THEN {"SEL_X_CELL"} \cup
          (IF Len(c.doc.side[c.row_num + 1]) > 0 THEN {"NAMES_SIDE"} ELSE {})
     ELSE IF c.pc = "side_cell" /\ Len(c.doc.side[c.row_num + 1]) >= c.col_num + 2
     THEN (IF alternatives(text(c.doc.side[c.row_num + 1][c.col_num + 2])) # <<>>
           THEN {"ALLERGEN_REGEX", "SPACE_REGEX"} ELSE {})
     ELSE {})

\* variant: the two result arrays are buffers that all calls share
task_step_shared_arrays(calls, t, c) ==
    [u \in DOMAIN calls |->
        IF u = t THEN c
        ELSE [calls[u] EXCEPT !.main_dishes = c.main_dishes,
                              !.side_dishes = c.side_dishes]]

\* a step of call t: the arrays, the row and column position, typ and price
\* are locals of the call and no other call's locals change
task_step(calls, t, c) == [calls EXCEPT ![t] = c]

\* scrape_page run alone from the state c to its end
RECURSIVE scrape_page_alone(_)
scrape_page_alone(c) ==
    IF c.pc = "main_row" /\ c.row_num < Len(c.doc.main)
    THEN scrape_page_alone(main_first_cell(c))
    ELSE IF c.pc = "main_row" THEN scrape_page_alone(main_rows_done(c))
    ELSE IF c.pc = "main_cell" THEN scrape_page_alone(main_cell(c))
    ELSE IF c.pc = "side_row" /\ c.row_num < Len(c.doc.side)
    THEN scrape_page_alone(side_first_cell(c))
    ELSE IF c.pc = "side_row" THEN side_rows_done(c)
    ELSE IF c.pc = "side_cell" THEN scrape_page_alone(side_cell(c))
    ELSE c

\* the pages the two calls run on
ConcDocs ==
    { [main |-> << <<LblWok>> \o Mixed(CellCurry, CellEmpty, 5) >>, side |-> <<>>],
      [main |-> <<>>, side |-> << <<LblSideMain>> \o Uniform(SideSepRun, 5) >>],
      [main |-> << <<LblKlassikerBr>> \o Uniform(CellSchnitzelTwoRuns, 5) >>,
       side |-> << <<LblSideSecondary>> \o Mixed(SideSepRunEn, CellEmpty, 5) >>],
      [main |-> << <<LblWok>> \o Uniform(CellSchnitzelTwoRuns, 4) >>, side |-> <<>>] }

InitConc ==
    /\ pc = "concurrent"
    /\ call \in [Tasks -> {scrape_page(doc) : doc \in ConcDocs}]
    /\ week = [t \in Tasks |-> NoWeek]
    /\ statics = Uninit
    /\ sortedw = NoWeek
    /\ view = NoView
    /\ arg = NoArg
    /\ out = NoOut
    /\ cli = NoCli

\* call t takes the step that leads to c; a panic unwinds call t only
ConcStep(t, c) ==
    /\ call' = task_step(call, t, c)
    /\ statics' = deref(statics, StaticsUsed(call[t]))
    /\ UNCHANGED <<pc, arg, out, week, sortedw, view, cli>>

ConcMainFirstCell ==
    \E t \in Tasks :
        /\ call[t].pc = "main_row"
        /\ call[t].row_num < Len(call[t].doc.main)
        /\ ConcStep(t, main_first_cell(call[t]))

ConcMainCell ==
    \E t \in Tasks :
        /\ call[t].pc = "main_cell"
        /\ ConcStep(t, main_cell(call[t]))

ConcMainRowsDone ==
    \E t \in Tasks :
        /\ call[t].pc = "main_row"
        /\ call[t].row_num = Len(call[t].doc.main)
        /\ ConcStep(t, main_rows_done(call[t]))

ConcSideFirstCell ==
    \E t \in Tasks :
        /\ call[t].pc = "side_row"
        /\ call[t].row_num < Len(call[t].doc.side)
        /\ ConcStep(t, side_first_cell(call[t]))

ConcSideCell ==
    \E t \in Tasks :
        /\ call[t].pc = "side_cell"
        /\ ConcStep(t, side_cell(call[t]))

\* call t returns Ok(WeekData) to its caller
ConcSideRowsDone ==
    \E t \in Tasks :
        /\ call[t].pc = "side_row"
        /\ call[t].row_num = Len(call[t].doc.side)
        /\ call' = task_step(call, t, side_rows_done(call[t]))
        /\ week' = [week EXCEPT ![t] = WeekData(call'[t])]
        /\ statics' = deref(statics, StaticsUsed(call[t]))
        /\ UNCHANGED <<pc, arg, out, sortedw, view, cli>>

NextConc ==
    \/ ConcMainFirstCell
    \/ ConcMainCell
    \/ ConcMainRowsDone
    \/ ConcSideFirstCell
    \/ ConcSideCell
    \/ ConcSideRowsDone

SpecConc == InitConc /\ [][NextConc]_vars

(***************************************************************************)
(* Menu path of a mensa (config.rs).                                       *)
(***************************************************************************)
\* str::replace: every non-overlapping occurrence of from, leftmost first
RECURSIVE str_replace(_, _, _)
str_replace(s, from, to) ==
    LET i == Find(s, from)
    IN IF i = 0 THEN s
       ELSE SubSeq(s, 1, i - 1) \o to
            \o str_replace(SubSeq(s, i + Len(from), Len(s)), from, to)

THIS_WEEK == [de |-> S("diese"), en |-> S("this")]
NEXT_WEEK == [de |-> S("naechste"), en |-> S("next")]

\* PathTemplate::fill_suffix_v
fill_suffix_v(template, name, week_word) ==
    str_replace(str_replace(template, S("{{name}}"), name), S("{{week}}"), week_word)

\* variant: the week word is always the German one
fill_suffix_german_week(self, mensa, next_week, english) ==
    LET week_t == IF next_week THEN NEXT_WEEK ELSE THIS_WEEK
    IN IF english THEN fill_suffix_v(self.suffix_template.en, mensa, week_t.de)
       ELSE fill_suffix_v(self.suffix_template.de, mensa, week_t.de)

\* PathTemplate::fill_suffix
fill_suffix(self, mensa, next_week, english) ==
    LET week_t == IF next_week THEN NEXT_WEEK ELSE THIS_WEEK
    IN IF english THEN fill_suffix_v(self.suffix_template.en, mensa, week_t.en)
       ELSE fill_suffix_v(self.suffix_template.de, mensa, week_t.de)

\* PathTemplate::build_path
build_path(self, mensa, next_week, english) ==
    self.prefix \o S("/") \o fill_suffix(self, mensa, next_week, english)

\* the parts a suffix template is put together from: three literals that
\* differ by language, and the two placeholders
PartKinds == {"head", "sep", "tail", "name", "week"}

\* the text of a part in the template of a language
PartText(kind, english) ==
    CASE kind = "head" -> IF english THEN S("menu_mensa_") ELSE S("speiseplan_mensa_")
      [] kind = "sep" -> S("_")
      [] kind = "tail" -> IF english THEN S("_week.html") ELSE S("_woche.html")
      [] kind = "name" -> S("{{name}}")
      [] kind = "week" -> S("{{week}}")

\* the suffix template of a language with the parts shape
SuffixTemplate(shape, english) ==
    collect_string([i \in 1..Len(shape) |-> PartText(shape[i], english)])

\* the parts of the suffix templates of CONFIG.endpoint.menu, as the test
\* gen_mensa_url_path shows them
ConfigShape == <<"head", "name", "sep", "week", "tail">>

\* the prefix of CONFIG.endpoint.menu, as the test shows it
ConfigPrefix == S("files/content/Downloads/Gastronomie/Speiseplaene")

Shapes == SeqsUpTo(PartKinds, MaxTplParts) \cup {ConfigShape}

\* Mensa::url_name of some of the canteens
MensaNames == {S("academica"), S("bistro_templergraben"), S("vita")}

InitPath ==
    /\ pc = "path_in"
    /\ \E shape \in Shapes, mensa \in MensaNames, next_week \in BOOLEAN,
          english \in BOOLEAN, prefix \in {ConfigPrefix, <<>>} :
        arg = [shape |-> shape, mensa |-> mensa, next_week |-> next_week,
               english |-> english,
               self |-> [prefix |-> prefix,
                         suffix_template |-> [de |-> SuffixTemplate(shape, FALSE),
                                              en |-> SuffixTemplate(shape, TRUE)]]]
    /\ out = NoOut
    /\ call = NoCall
    /\ week = NoWeek
    /\ sortedw = NoWeek
    /\ view = NoView
    /\ cli = NoCli
    /\ statics = NoStatics

FillSuffix ==
    /\ pc = "path_in"
    /\ out' = [fn |-> "fill_suffix",
               val |-> fill_suffix(arg.self, arg.mensa, arg.next_week, arg.english),
               once |-> <<>>]
    /\ pc' = "path_out"
    /\ UNCHANGED <<arg, call, week, sortedw, view, cli, statics>>

BuildPath ==
    /\ pc = "path_in"
    /\ out' = [fn |-> "build_path",
               val |-> build_path(arg.self, arg.mensa, arg.next_week, arg.english),
               once |-> <<>>]
    /\ pc' = "path_out"
    /\ UNCHANGED <<arg, call, week, sortedw, view, cli, statics>>

NextPath ==
    \/ FillSuffix
    \/ BuildPath

SpecPath == InitPath /\ [][NextPath]_vars

(***************************************************************************)
(* The display name of an enumerant, classified again.                     *)
(***************************************************************************)
\* what a first cell may hold before and behind the label
LabelPrefixes == {<<>>, S("<b>")}
LabelSuffixes == {<<>>, S("<br>2,50 €"), S(" (A,B)")}

InitName ==
    /\ pc = "name_in"
    /\ \E enum \in {"MealType", "SideType"}, english \in BOOLEAN,
          pre \in LabelPrefixes, suf \in LabelSuffixes :
        \E e \in Enumerants(IF enum = "MealType" THEN MealType ELSE SideType) :
            arg = [enum |-> enum, self |-> e, english |-> english,
                   pre |-> pre, suf |-> suf]
    /\ out = NoOut
    /\ call = NoCall
    /\ week = NoWeek
    /\ sortedw = NoWeek
    /\ view = NoView
    /\ cli = NoCli
    /\ statics = NoStatics

MealTypeName ==
    /\ pc = "name_in" /\ arg.enum = "MealType"
    /\ out' = [fn |-> "name", val |-> MealType_name(arg.self, arg.english), once |-> <<>>]
    /\ pc' = "named"
    /\ UNCHANGED <<arg, call, week, sortedw, view, cli, statics>>

SideTypeName ==
    /\ pc = "name_in" /\ arg.enum = "SideType"
    /\ out' = [fn |-> "name", val |-> SideType_name(arg.self, arg.english), once |-> <<>>]
    /\ pc' = "named"
    /\ UNCHANGED <<arg, call, week, sortedw, view, cli, statics>>

\* the display name, inside the markup of a first cell, is classified
MealTypeInfer ==
    /\ pc = "named" /\ arg.enum = "MealType"
    /\ out' = [fn |-> "infer", val |-> MealType_infer(arg.pre \o out.val \o arg.suf),
               once |-> out.val]
    /\ pc' = "classified"
    /\ UNCHANGED <<arg, call, week, sortedw, view, cli, statics>>

SideTypeInfer ==
    /\ pc = "named" /\ arg.enum = "SideType"
    /\ out' = [fn |-> "infer", val |-> SideType_infer(arg.pre \o out.val \o arg.suf),
               once |-> out.val]
    /\ pc' = "classified"
    /\ UNCHANGED <<arg, call, week, sortedw, view, cli, statics>>

NextName ==
    \/ MealTypeName
    \/ SideTypeName
    \/ MealTypeInfer
    \/ SideTypeInfer

SpecName == InitName /\ [][NextName]_vars

(***************************************************************************)
(* Properties.                                                             *)
(***************************************************************************)
\* s holds the keyword kw in any letter case
HoldsKeyword(s, kw) ==
    \E i \in 1..Len(s) :
        /\ i + Len(kw) - 1 <= Len(s)
        /\ to_lowercase(SubSeq(s, i, i + Len(kw) - 1)) = kw

\* the text content of an element: its text runs put together
TextContent(kids) == collect_string(text(kids))

\* a page with one main-dish row labeled "Klassiker (A,B) 2,50 €" whose 5
\* weekday cells each hold a dish-text element with the text
\* "Schnitzel (C)\nmit Sauce"
IsKlassikerPage(doc) ==
    /\ Len(doc.main) = 1
    /\ Len(doc.main[1]) = OPEN_DAYS + 1
    /\ TextContent(doc.main[1][1]) = S("Klassiker (A,B) 2,50 €")
    /\ \A d \in Days :
        LET found == select_class(doc.main[1][d + 2], SEL_X_DTEXT)
        IN /\ found # <<>>
           /\ TextContent(found[1].kids) = S("Schnitzel (C)\nmit Sauce")

\* C1 as stated: on such a page every weekday holds exactly one MealInfo
\* {Klassiker, "Schnitzel", "mit Sauce", "2,50 €", {A,B,C}, not vegan}
C1_EndToEndMainDish ==
    (call.ret = "Ok" /\ IsKlassikerPage(call.doc)) =>
        \A d \in Days :
            week.main_dishes[d] =
                <<[typ |-> "Klassiker", text |-> S("Schnitzel"), subtext |-> S("mit Sauce"),
                   price |-> S("2,50 €"), allergens |-> <<S("A"), S("B"), S("C")>>,
                   vegan |-> FALSE]>>

\* C1 amended: on such a page every weekday holds exactly one MealInfo of type
\* Klassiker with allergens {C} only (the codes of the row label are not
\* collected), not vegan when the cell's markup holds no vegan keyword; the
\* price is "2,50 €" when the first cell's markup is
\* "Klassiker (A,B) <br>2,50 €" and empty when it has no <br>; text and subtext
\* are "Schnitzel" and "mit Sauce" when the two lines are separate text runs,
\* and "Schnitzel mit Sauce" and "" when the dish text is a single text run
C1_EndToEndMainDishAmended ==
    (call.ret = "Ok" /\ IsKlassikerPage(call.doc)) =>
        \A d \in Days :
            LET row == call.doc.main[1]
                markup == inner_html(row[1])
                runs == text(select_class(row[d + 2], SEL_X_DTEXT)[1].kids)
                m == week.main_dishes[d][1]
            IN /\ Len(week.main_dishes[d]) = 1
               /\ m.typ = "Klassiker"
               /\ m.allergens = <<S("C")>>
               /\ (\A kw \in {S("vegan"), S("vegetarian"), S("vegetarisch")} :
                        ~HoldsKeyword(inner_html(row[d + 2]), kw)) => m.vegan = FALSE
               /\ markup = S("Klassiker (A,B) <br>2,50 €") => m.price = S("2,50 €")
               /\ ~HoldsKeyword(markup, S("<br>")) => m.price = <<>>
               /\ runs = <<S("Schnitzel (C)"), S("\nmit Sauce")>> =>
                    (m.text = S("Schnitzel") /\ m.subtext = S("mit Sauce"))
               /\ Len(runs) = 1 => (m.text = S("Schnitzel mit Sauce") /\ m.subtext = <<>>)

C1_Witness ==
    /\ pc = "returned"
    /\ IsKlassikerPage(call.doc)
    /\ week.main_dishes[4][1].price = S("2,50 €")
    /\ week.main_dishes[4][1].subtext = S("mit Sauce")
    /\ week.main_dishes[4][1].vegan = FALSE

\* some main-dish or side-dish row lacks its first cell or a weekday cell
HasMalformedRow(doc) ==
    \/ \E r \in 1..Len(doc.main) : Malformed(doc.main[r])
    \/ \E r \in 1..Len(doc.side) : Malformed(doc.side[r])

\* C2 as stated: a page with a malformed row makes scrape_page return a
\* LayoutMismatch error to its caller, and no WeekData
C2_MalformedReturnsError ==
    (HasMalformedRow(call.doc) /\ pc # "scrape_page") =>
        (call.ret = "Err" /\ week = NoWeek)

\* C2 amended: a page with a malformed row makes scrape_page panic; nothing is
\* returned to the caller, neither an error value nor a WeekData
C2_MalformedPanics ==
    HasMalformedRow(call.doc) =>
        /\ week = NoWeek
        /\ call.ret = "none"
        /\ pc \in {"scrape_page", "panicked"}
        /\ pc = "panicked" <=> call.pc = "panicked"

C2_Witness ==
    /\ pc = "panicked"
    /\ HasMalformedRow(call.doc)
    /\ \E d \in Days : call.main_dishes[d] # <<>>
    /\ week = NoWeek

\* the weekday cell d of a side row labeled "Sättigungsbeilage" has the text
\* "Kartoffeln (A) oder Reis"
IsKartoffelCell(row, d) ==
    /\ Len(row) >= d + 2
    /\ TextContent(row[1]) = S("Sättigungsbeilage")
    /\ TextContent(row[d + 2]) = S("Kartoffeln (A) oder Reis")

KartoffelnReis ==
    [typ |-> "Main",
     alternatives |-> <<[text |-> S("Kartoffeln"), allergens |-> <<S("A")>>],
                        [text |-> S("Reis"), allergens |-> <<>>]>>]

\* C3 as stated: such a cell yields SideInfo{Main, [("Kartoffeln", {A}),
\* ("Reis", {})]}, the separator word dropped
C3_EndToEndSideDish ==
    call.ret = "Ok" =>
        \A r \in 1..Len(call.doc.side), d \in Days :
            IsKartoffelCell(call.doc.side[r], d) => week.side_dishes[d][r] = KartoffelnReis

\* C3 amended: such a cell yields SideInfo{Main, [("Kartoffeln", {A}),
\* ("Reis", {})]} when the word "oder" is a text run of its own (an element of
\* its own between the two alternatives); when the cell is one text run it
\* yields the single alternative ("Kartoffeln oder Reis", {A})
C3_EndToEndSideDishAmended ==
    call.ret = "Ok" =>
        \A r \in 1..Len(call.doc.side), d \in Days :
            IsKartoffelCell(call.doc.side[r], d) =>
                LET runs == text(call.doc.side[r][d + 2])
                    si == week.side_dishes[d][r]
                IN /\ runs = <<S("Kartoffeln (A) "), S("oder"), S(" Reis")>> =>
                        si = KartoffelnReis
                   /\ Len(runs) = 1 =>
                        si = [typ |-> "Main",
                              alternatives |-> <<[text |-> S("Kartoffeln oder Reis"),
                                                  allergens |-> <<S("A")>>]>>]

C3_Witness ==
    /\ call.ret = "Ok"
    /\ \E r \in 1..Len(call.doc.side), d \in Days :
        /\ IsKartoffelCell(call.doc.side[r], d)
        /\ Len(text(call.doc.side[r][d + 2])) = 3
        /\ week.side_dishes[d][r] = KartoffelnReis

\* s has a substring of the shape '(' [A-Z0-9,]* ')'
HasMarker(s) ==
    \E i, j \in 1..Len(s) :
        /\ i < j
        /\ s[i] = "("
        /\ s[j] = ")"
        /\ \A k \in (i + 1)..(j - 1) : s[k] \in AllergenClass

\* C4 as stated: cleaning a cleaned text changes nothing, and a cleaned text
\* holds no allergen marker
C4_CleanIdempotent ==
    out.fn = "remove_allergens_twice" => (out.val = out.once /\ ~HasMarker(out.once))

\* C5: the extracted allergens are strictly ascending, hence without
\* duplicates, and "Soup (A,C,A)" yields A, C
C5_AllergensSortedSet ==
    out.fn = "collect_allergens" =>
        /\ \A i \in 1..(Len(out.val) - 1) : StrCmp(out.val[i], out.val[i + 1]) < 0
        /\ arg.s = S("Soup (A,C,A)") => out.val = <<S("A"), S("C")>>

C5_Witness ==
    /\ out.fn = "collect_allergens"
    /\ arg.s = S("Reis (C1,A) (A,C1)")
    /\ out.val = <<S("A"), S("C1")>>

\* C6: a label that holds "Burger Classics" in any letter case is classified
\* BurgerClassics
C6_BurgerClassicsPrecedence ==
    (/\ out.fn = "MealType_infer"
     /\ \E i \in 1..Len(arg.s) :
            /\ i + 14 <= Len(arg.s)
            /\ to_lowercase(SubSeq(arg.s, i, i + 14)) = S("burger classics"))
    => out.val = "BurgerClassics"

C6_Witness ==
    /\ out.fn = "MealType_infer"
    /\ arg.s = S("KlassikerBURGER CLASSICS")
    /\ out.val = "BurgerClassics"

\* C7: the vegan heuristic is true for type Vegetarisch, and otherwise exactly
\* when the markup holds "vegan", "vegetarian" or "vegetarisch" in any case
C7_VeganHeuristic ==
    out.fn = "vegan_detektiv" =>
        /\ out.val = (\/ arg.typ = "Vegetarisch"
                      \/ HoldsKeyword(arg.s, S("vegan"))
                      \/ HoldsKeyword(arg.s, S("vegetarian"))
                      \/ HoldsKeyword(arg.s, S("vegetarisch")))
        /\ (arg.typ = "Klassiker" /\ arg.s = S("Contains vegan sauce")) => out.val = TRUE
        /\ (arg.typ = "Klassiker" /\ arg.s = S("Schnitzel")) => out.val = FALSE

C7_Witness ==
    /\ out.fn = "vegan_detektiv"
    /\ arg.typ = "Klassiker"
    /\ arg.s = S("SchnitzelVEGETARISCH")
    /\ out.val = TRUE

\* the two sequences hold the same entries the same number of times
SameEntries(a, b) ==
    /\ Len(a) = Len(b)
    /\ \A i \in 1..Len(a) :
        Cardinality({k \in 1..Len(a) : a[k] = a[i]})
            = Cardinality({k \in 1..Len(b) : b[k] = a[i]})

\* C8: sorting the sorted week changes nothing, and every day of the sorted
\* week holds the entries of that day of the week, each as often
C8_SortedIdempotentContent ==
    sortedw # NoWeek =>
        /\ sorted(sortedw) = sortedw
        /\ \A d \in Days :
            /\ SameEntries(sortedw.main_dishes[d], week.main_dishes[d])
            /\ SameEntries(sortedw.side_dishes[d], week.side_dishes[d])

C8_Witness ==
    /\ pc = "sorted"
    /\ sortedw.main_dishes # week.main_dishes
    /\ \E d \in Days : Len(week.main_dishes[d]) = 2

\* C9: get_day(i) on a returned WeekData yields the view of day i for i in
\* 0..4, and panics without a view for i >= 5
C9_GetDayBoundsChecked ==
    view.day >= 0 =>
        LET w == IF sortedw # NoWeek THEN sortedw ELSE week
        IN IF view.day < 5
           THEN /\ view.ok /\ ~view.panic
                /\ pc = "viewed"
                /\ view.main_dishes = w.main_dishes[view.day]
                /\ view.side_dishes = w.side_dishes[view.day]
           ELSE /\ view.panic /\ ~view.ok
                /\ pc = "usage_panic"
                /\ view.main_dishes = <<>>
                /\ view.side_dishes = <<>>

C9_Witness ==
    /\ pc = "usage_panic"
    /\ view.day = 5
    /\ call.ret = "Ok"
    /\ \E d \in Days : week.main_dishes[d] # <<>>

\* the day after weekday day_n that has a menu: tomorrow, or the Monday of the
\* next week when tomorrow is a Saturday or a Sunday
NextMenuDay(day_n) ==
    IF day_n + 1 <= 5 THEN [panic |-> FALSE, next_week |-> FALSE, idx |-> day_n]
    ELSE [panic |-> FALSE, next_week |-> TRUE, idx |-> 0]

\* C10 as stated: with --day next and no --date, on every weekday handle_menu
\* selects the next day with a menu, idx is in [0,5) and get_day does not panic
C10_NextDayInRange ==
    (pc # "handle_menu" /\ cli.opts.date = NoDate /\ cli.opts.day = "Next") =>
        /\ cli.sel = NextMenuDay(cli.day_n)
        /\ cli.sel.idx \in 0..4
        /\ pc # "usage_panic"

\* the label s holds none of the German or English labels of the table, in
\* any letter case
HoldsNoLabel(names, s) ==
    \A i \in 1..Len(names) :
        /\ ~HoldsKeyword(s, to_lowercase(names[i].de))
        /\ ~HoldsKeyword(s, to_lowercase(names[i].en))

\* C11: both classifiers are total: the result is always an enumerant, never
\* an error, and a label (the empty one and markup included) that holds none
\* of the known labels is classified Unbekannt resp. Unknown
C11_FallbackTotality ==
    /\ out.fn = "MealType_infer" =>
        /\ out.val \in Enumerants(MealType)
        /\ HoldsNoLabel(NAMES_MAIN, arg.s) => out.val = "Unbekannt"
    /\ out.fn = "SideType_infer" =>
        /\ out.val \in Enumerants(SideType)
        /\ HoldsNoLabel(NAMES_SIDE, arg.s) => out.val = "Unknown"

C11_Witness ==
    /\ out.fn = "SideType_infer"
    /\ arg.s = S("<b>Schnitzel")
    /\ out.val = "Unknown"

\* C12: of two scrape_page calls run concurrently under any interleaving of
\* their steps, each ends as it ends when run alone on its page (the same
\* WeekData, or the same panic), and a shared item that has been initialised
\* is never written again
C12_ConcurrentCallsIsolated ==
    /\ [](\A t \in Tasks :
            call[t].pc \in {"returned", "panicked"} =>
                /\ call[t] = scrape_page_alone(scrape_page(call[t].doc))
                /\ call[t].pc = "returned" =>
                       week[t] = WeekData(scrape_page_alone(scrape_page(call[t].doc))))
    /\ [][\A n \in StaticNames : statics[n].init => statics'[n] = statics[n]]_vars

C12_Witness ==
    /\ pc = "concurrent"
    /\ \A t \in Tasks : call[t].pc = "returned"
    /\ week[1] # week[2]
    /\ week[1].main_dishes[0] # <<>>
    /\ week[2].side_dishes[0] # <<>>
    /\ statics["ALLERGEN_REGEX"].init

\* the week word of a language: "diese" / "naechste", "this" / "next"
WeekWord(next_week, english) ==
    IF english THEN (IF next_week THEN S("next") ELSE S("this"))
    ELSE (IF next_week THEN S("naechste") ELSE S("diese"))

\* the suffix the parts shape stand for: the literals of the language, the
\* mensa for {{name}} and the week word of the language for {{week}}
FilledSuffix(shape, mensa, next_week, english) ==
    collect_string([i \in 1..Len(shape) |->
        IF shape[i] = "name" THEN mensa
        ELSE IF shape[i] = "week" THEN WeekWord(next_week, english)
        ELSE PartText(shape[i], english)])

\* C13: build_path is the prefix, "/" and the suffix template of the requested
\* language with {{name}} replaced by the mensa and {{week}} by the week word
\* of that same language; for the configured templates this is the path the
\* test gen_mensa_url_path expects
C13_BuildPathSameLanguage ==
    out.fn = "build_path" =>
        /\ out.val = arg.self.prefix \o S("/")
                     \o FilledSuffix(arg.shape, arg.mensa, arg.next_week, arg.english)
        /\ (/\ arg.shape = ConfigShape /\ arg.self.prefix = ConfigPrefix
            /\ arg.mensa = S("academica") /\ arg.english /\ arg.next_week)
           => out.val = S("files/content/Downloads/Gastronomie/Speiseplaene/menu_mensa_academica_next_week.html")
        /\ (/\ arg.shape = ConfigShape /\ arg.self.prefix = ConfigPrefix
            /\ arg.mensa = S("academica") /\ ~arg.english /\ ~arg.next_week)
           => out.val = S("files/content/Downloads/Gastronomie/Speiseplaene/speiseplan_mensa_academica_diese_woche.html")

C13_Witness ==
    /\ out.fn = "build_path"
    /\ arg.shape = ConfigShape
    /\ arg.mensa = S("vita")
    /\ arg.english /\ arg.next_week
    /\ out.val = S("files/content/Downloads/Gastronomie/Speiseplaene/menu_mensa_vita_next_week.html")

\* the main-dish rows of doc whose cell of weekday d holds a dish-text
\* element, as their row numbers in document order
MainRowsWithDish(doc, d) ==
    LET HasDish(r) == select_class(doc.main[r][d + 2], SEL_X_DTEXT) # <<>>
    IN SelectSeq([r \in 1..Len(doc.main) |-> r], HasDish)

\* the MealInfo of the cell of weekday d of a main-dish row
MealInfoOfCell(row, d) ==
    LET type_text == inner_html(row[1])
        found == select_class(row[d + 2], SEL_X_DTEXT)
    IN meal_info(MealType_infer(type_text), price_of(type_text), row[d + 2],
                 text(found[1].kids))

\* C14: a WeekData returned with success has both slots for each of the
\* days 0..4; main_dishes[d] holds exactly one MealInfo per main-dish row whose
\* cell of weekday d has a dish-text element (a cell without one adds nothing),
\* side_dishes[d] exactly one SideInfo per side-dish row, both in row order
\* (stated of the WeekData at the return of the call)
C14_WeekDataShape ==
    (pc = "returned" /\ call.ret = "Ok") =>
        /\ DOMAIN week.main_dishes = 0..4
        /\ DOMAIN week.side_dishes = 0..4
        /\ \A d \in 0..4 :
            LET rows == MainRowsWithDish(call.doc, d)
            IN /\ Len(week.main_dishes[d]) = Len(rows)
               /\ \A i \in 1..Len(rows) :
                    week.main_dishes[d][i] = MealInfoOfCell(call.doc.main[rows[i]], d)
               /\ Len(week.side_dishes[d]) = Len(call.doc.side)
               /\ \A r \in 1..Len(call.doc.side) :
                    /\ week.side_dishes[d][r].typ
                           = SideType_infer(inner_html(call.doc.side[r][1]))
                    /\ week.side_dishes[d][r].alternatives
                           = alternatives(text(call.doc.side[r][d + 2]))

C14_Witness ==
    /\ call.ret = "Ok"
    /\ Len(call.doc.main) = 2
    /\ Len(week.main_dishes[0]) = 2
    /\ week.main_dishes[0][1].typ = "Wok"
    /\ week.main_dishes[0][2].typ = "Klassiker"
    /\ Len(week.main_dishes[1]) = 1
    /\ week.main_dishes[1][1].typ = "Klassiker"

C14_WitnessSide ==
    /\ call.ret = "Ok"
    /\ Len(call.doc.side) = 2
    /\ week.side_dishes[1][1].typ = "Secondary"
    /\ week.side_dishes[1][1].alternatives = <<>>
    /\ week.side_dishes[1][2].typ = "Main"

\* the rank of a meal type: its place in the declaration of the enum
MealTypeRank(t) ==
    CASE t = "Klassiker" -> 1 [] t = "Tellergericht" -> 2 [] t = "Empfehlung" -> 3
      [] t = "Wok" -> 4 [] t = "BurgerClassics" -> 5 [] t = "BurgerWoche" -> 6
      [] t = "PizzaTag" -> 7 [] t = "Vegetarisch" -> 8 [] t = "Unbekannt" -> 9

\* the rank of a side type: Main < Secondary < Unknown
SideTypeRank(t) ==
    CASE t = "Main" -> 1 [] t = "Secondary" -> 2 [] t = "Unknown" -> 3

\* the first comparison of cs that is not "equal", "equal" when there is none
LexCmp(cs) ==
    IF \A i \in 1..Len(cs) : cs[i] = 0 THEN 0
    ELSE cs[CHOOSE i \in 1..Len(cs) : cs[i] # 0 /\ \A j \in 1..(i - 1) : cs[j] = 0]

\* a is not behind b in the order of MealInfo: by type, text, subtext, price,
\* allergens, vegan
MealInfoLeq(a, b) ==
    LexCmp(<<IntCmp(MealTypeRank(a.typ), MealTypeRank(b.typ)),
             StrCmp(a.text, b.text), StrCmp(a.subtext, b.subtext),
             StrCmp(a.price, b.price),
             AllergenList_cmp(a.allergens, b.allergens),
             BoolCmp(a.vegan, b.vegan)>>) <= 0

\* a is not behind b in the order of SideInfo: by type, then by the
\* alternatives (each by text, then allergens), a proper prefix first
SideInfoLeq(a, b) ==
    LexCmp(<<IntCmp(SideTypeRank(a.typ), SideTypeRank(b.typ))>>
           \o [i \in 1..MinLen(a.alternatives, b.alternatives) |->
                  LexCmp(<<StrCmp(a.alternatives[i].text, b.alternatives[i].text),
                           AllergenList_cmp(a.alternatives[i].allergens,
                                            b.alternatives[i].allergens)>>)]
           \o <<IntCmp(Len(a.alternatives), Len(b.alternatives))>>) <= 0

\* C15: in the WeekData sorted() returns, the main dishes of every day are
\* non-decreasing in the order of MealInfo and the side dishes of every day
\* non-decreasing in the order of SideInfo
C15_SortedNonDecreasing ==
    pc = "sorted" =>
        \A d \in Days :
            /\ \A i \in 1..(Len(sortedw.main_dishes[d]) - 1) :
                MealInfoLeq(sortedw.main_dishes[d][i], sortedw.main_dishes[d][i + 1])
            /\ \A i \in 1..(Len(sortedw.side_dishes[d]) - 1) :
                SideInfoLeq(sortedw.side_dishes[d][i], sortedw.side_dishes[d][i + 1])

C15_Witness ==
    /\ pc = "sorted"
    /\ Len(week.main_dishes[0]) = 2
    /\ week.main_dishes[0][1].typ = "Wok"
    /\ week.main_dishes[0][2].typ = "Klassiker"
    /\ sortedw.main_dishes[0] = <<week.main_dishes[0][2], week.main_dishes[0][1]>>

C15_WitnessSide ==
    /\ pc = "sorted"
    /\ Len(week.side_dishes[0]) = 2
    /\ week.side_dishes[0][1].typ = "Secondary"
    /\ sortedw.side_dishes[0] = <<week.side_dishes[0][2], week.side_dishes[0][1]>>
    /\ sortedw.side_dishes[0][1].typ = "Main"

\* the text runs of the dish-text element of the cell of weekday d of a row
DishRuns(row, d) == text(select_class(row[d + 2], SEL_X_DTEXT)[1].kids)

\* the codes of the allergen markers that cleaning removes from s
CodesRemoved(s) ==
    LET codes == flat_map_split(captures_iter(s, 1))
    IN {codes[i] : i \in 1..Len(codes)}

\* the codes of an AllergenList
CodesOf(allergens) == {allergens[i] : i \in 1..Len(allergens)}

\* C16 as stated: the allergens of every MealInfo are extracted from the
\* first text run of the dish-text element, as it is, followed by all the
\* remaining text runs, and hold every code that cleaning removed from the
\* headline or the subtext
C16_AllergensFromRawRuns ==
    (pc = "returned" /\ call.ret = "Ok") =>
        \A d \in Days :
            LET rows == MainRowsWithDish(call.doc, d)
            IN \A i \in 1..Len(rows) :
                LET runs == DishRuns(call.doc.main[rows[i]], d)
                    m == week.main_dishes[d][i]
                IN /\ m.allergens
                        = collect_allergens(runs[1] \o collect_string(Tail(runs)))
                   /\ CodesRemoved(runs[1]) \subseteq CodesOf(m.allergens)
                   /\ CodesRemoved(collect_string(Tail(runs))) \subseteq CodesOf(m.allergens)

\* C16, amended: the allergens of every MealInfo are extracted from the first
\* text run of the dish-text element with its leading and trailing whitespace
\* trimmed, followed by all the remaining text runs as they are; they hold
\* every code that cleaning removed from the headline or the subtext
C16_AllergensFromTrimmedHeadline ==
    (pc = "returned" /\ call.ret = "Ok") =>
        \A d \in Days :
            LET rows == MainRowsWithDish(call.doc, d)
            IN \A i \in 1..Len(rows) :
                LET runs == DishRuns(call.doc.main[rows[i]], d)
                    m == week.main_dishes[d][i]
                IN /\ m.allergens
                        = collect_allergens(trim(runs[1]) \o collect_string(Tail(runs)))
                   /\ CodesRemoved(trim(runs[1])) \subseteq CodesOf(m.allergens)
                   /\ CodesRemoved(collect_string(Tail(runs))) \subseteq CodesOf(m.allergens)

C16_Witness ==
    /\ pc = "returned" /\ call.ret = "Ok"
    /\ Len(week.main_dishes[0]) = 1
    /\ week.main_dishes[0][1].text = S("Suppe (A,")
    /\ week.main_dishes[0][1].subtext = S("G) mit Brot")
    /\ week.main_dishes[0][1].allergens = <<S("A"), S("C"), S("G")>>

\* the markup s has the line-break marker <br> at index i
BrAt(s, i) == i + 3 <= Len(s) /\ SubSeq(s, i, i + 3) = S("<br>")

\* p is what follows the first line-break marker of the markup s, the empty
\* string when s has no marker
IsPriceOf(p, s) ==
    IF \E i \in 1..Len(s) : BrAt(s, i)
    THEN \E i \in 1..Len(s) :
            /\ BrAt(s, i)
            /\ \A j \in 1..(i - 1) : ~BrAt(s, j)
            /\ p = SubSeq(s, i + 4, Len(s))
    ELSE p = <<>>

\* C17: every MealInfo of a main-dish row, on every weekday, carries as its
\* price what follows the first line-break marker in the markup of the row's
\* first cell, unparsed, and the empty string when that cell has no marker;
\* a row without a marker does not make the extraction fail: a call fails
\* only on a row with a missing cell or on a dish-text element without text
C17_PriceOfRow ==
    /\ (pc = "returned" /\ call.ret = "Ok") =>
        \A d \in Days :
            LET rows == MainRowsWithDish(call.doc, d)
            IN \A i \in 1..Len(rows) :
                IsPriceOf(week.main_dishes[d][i].price,
                          inner_html(call.doc.main[rows[i]][1]))
    /\ call.pc = "panicked" =>
        \/ \E r \in 1..Len(call.doc.main) :
            \/ Malformed(call.doc.main[r])
            \/ \E d \in Days :
                LET found == select_class(call.doc.main[r][d + 2], SEL_X_DTEXT)
                IN found # <<>> /\ text(found[1].kids) = <<>>
        \/ \E q \in 1..Len(call.doc.side) : Malformed(call.doc.side[q])

C17_Witness ==
    /\ pc = "returned" /\ call.ret = "Ok"
    /\ Len(call.doc.main) = 2
    /\ \A d \in Days :
        /\ Len(week.main_dishes[d]) = 2
        /\ week.main_dishes[d][1].price = S("4,90 €<br>klein")
        /\ week.main_dishes[d][2].price = <<>>
        /\ week.main_dishes[d][2].typ = "Klassiker"

\* s[i..j] is an allergen marker: '(' [A-Z0-9,]* ')'
IsMarker(s, i, j) ==
    /\ i < j
    /\ s[i] = "("
    /\ s[j] = ")"
    /\ \A k \in (i + 1)..(j - 1) : s[k] \in AllergenClass

\* the comma-separated pieces of the inner content of every marker of s:
\* the stretches without a comma that reach from the opening parenthesis or
\* a comma to the next comma or the closing parenthesis, empty ones included
PiecesOfMarkers(s) ==
    {SubSeq(s, ab[1], ab[2]) :
        ab \in {x \in (1..(Len(s) + 1)) \X (0..Len(s)) :
                  /\ x[1] >= 2
                  /\ x[2] >= x[1] - 1
                  /\ x[2] + 1 <= Len(s)
                  /\ \E i \in 1..(x[1] - 1), j \in (x[2] + 1)..Len(s) :
                        /\ IsMarker(s, i, j)
                        /\ s[x[1] - 1] \in {"(", ","}
                        /\ s[x[2] + 1] \in {",", ")"}
                        /\ \A k \in x[1]..x[2] : s[k] # ","}}

\* C18: the extracted list holds exactly the comma-separated pieces of the
\* inner content of every marker '(' [A-Z0-9,]* ')' of the text, each as it
\* is, the empty piece of "()" or of a leading, trailing or double comma
\* included; the list is empty if and only if the text has no marker
C18_ExtractExactPieces ==
    out.fn = "collect_allergens" =>
        /\ CodesOf(out.val) = PiecesOfMarkers(arg.s)
        /\ is_empty(out.val) <=> ~HasMarker(arg.s)
        /\ arg.s = S("()") => out.val = << <<>> >>
        /\ arg.s = S("(A,)") => out.val = << <<>>, S("A") >>
        /\ arg.s = S("(,,C)") => out.val = << <<>>, S("C") >>

C18_Witness ==
    /\ out.fn = "collect_allergens"
    /\ arg.s = S("(,A)")
    /\ out.val = << <<>>, S("A") >>
    /\ ~is_empty(out.val)

\* C19: for every enumerant of MealType and SideType, the fallbacks included,
\* and both languages, the display name is classified as the enumerant again
\* (alone or inside the markup of a first cell); every label of the two
\* tables is classified as the enumerant of its entry, every enumerant but
\* the fallback has an entry, and the display name is the default
\* "Unbekannt" / "Unknown" for the fallback enumerant only
C19_NameRoundTrip ==
    /\ out.fn = "infer" => out.val = arg.self
    /\ out.fn = "infer" =>
        /\ \A i \in 1..Len(NAMES_MAIN) :
            /\ MealType_infer(NAMES_MAIN[i].de) = NAMES_MAIN[i].typ
            /\ MealType_infer(NAMES_MAIN[i].en) = NAMES_MAIN[i].typ
        /\ \A i \in 1..Len(NAMES_SIDE) :
            /\ SideType_infer(NAMES_SIDE[i].de) = NAMES_SIDE[i].typ
            /\ SideType_infer(NAMES_SIDE[i].en) = NAMES_SIDE[i].typ
        /\ \A e \in Enumerants(MealType) \ {"Unbekannt"} :
            \E i \in 1..Len(NAMES_MAIN) : NAMES_MAIN[i].typ = e
        /\ \A e \in Enumerants(SideType) \ {"Unknown"} :
            \E i \in 1..Len(NAMES_SIDE) : NAMES_SIDE[i].typ = e
    /\ out.fn = "name" =>
        (out.val = (IF arg.english THEN S("Unknown") ELSE S("Unbekannt"))
            <=> arg.self \in {"Unbekannt", "Unknown"})

C19_Witness ==
    /\ out.fn = "infer"
    /\ arg.self = "BurgerWoche"
    /\ arg.english
    /\ arg.pre = <<>> /\ arg.suf = <<>>
    /\ out.once = S("Burger of the week")
    /\ out.val = "BurgerWoche"

====
